---- MODULE Spec2Model ----
(***************************************************************************)
(* etl.py: the Sparkify data-lake pipeline.  main() runs                   *)
(* process_song_data (songs, artists) and then process_log_data (users,    *)
(* time, songplays) against one output location.  DataFrames are modelled  *)
(* as finite sequences of records, SQL NULL as the value NULL, and each    *)
(* Spark action (a parquet write) as one step that evaluates the plan it   *)
(* depends on.  spark.read.json infers the schema from the records: the    *)
(* inputs considered are those in which every column the code names occurs *)
(* in some record, so that no statement stops on an unknown column.        *)
(***************************************************************************)
EXTENDS Integers, Sequences, FiniteSets, TLC

\* ------------------------------------------------------------------ bounds
MaxSongs == 3
MaxEvents == 2
MaxPartitions == 2
MaxRuns == 2

\* ------------------------------------------------------------ input values
NULL == "<null>"

\* A ts value as read from JSON: an integer of epoch milliseconds
\* (sec * 1000 + ms), a missing field, or text that int() cannot parse.
TsInt(sec, ms) == [kind |-> "int", sec |-> sec, ms |-> ms]
TsNull == [kind |-> "null", sec |-> 0, ms |-> 0]
TsText == [kind |-> "text", sec |-> 0, ms |-> 0]

SongRec(sid, title, aid, yr, aname, loc) ==
  [song_id |-> sid, title |-> title, artist_id |-> aid, year |-> yr,
   duration |-> 218, artist_name |-> aname, artist_location |-> loc,
   artist_latitude |-> IF loc = NULL THEN NULL ELSE "34.05",
   artist_longitude |-> IF loc = NULL THEN NULL ELSE "-117.75"]

\* The catalog records the inputs are drawn from: a plain record, a second
\* record with the same song_id and artist_id but other columns differing,
\* a second song with the same (artist_name, title), a record with no
\* artist_name and title, and a record with no song_id.
SongData ==
  << SongRec("S1", "Earth Died Screaming", "A1", 1992, "Tom Waits", "Pomona"),
     SongRec("S1", "Earth Died Screaming (Live)", "A1", 1993, "Tom Waits", NULL),
     SongRec("S2", "Earth Died Screaming", "A2", 2018, "Tom Waits", "Pomona"),
     SongRec("S3", NULL, "A3", 0, NULL, NULL),
     SongRec(NULL, "Jockey Full Of Bourbon", "A1", 1985, "Tom Waits", "Pomona") >>

LogRec(page, uid, first, level, ts, artist, song, sess) ==
  [page |-> page, userId |-> uid, firstName |-> first, lastName |-> "Summers",
   gender |-> "F", level |-> level, ts |-> ts, artist |-> artist, song |-> song,
   sessionId |-> sess, location |-> "Phoenix", userAgent |-> "Mozilla"]

\* The event records the inputs are drawn from.
LogData ==
  << LogRec("NextSong", "8", "Kaylee", "free", TsInt(1541121934, 796),
            "Tom Waits", "Earth Died Screaming", 139),
     LogRec("NextSong", "8", "Kay", "free", TsInt(1541121934, 796),
            "Unknown Band", "Unknown Song", 139),
     LogRec("NextSong", "8", "Kaylee", "paid", TsInt(1546300800, 0),
            "Tom Waits", "Jockey Full Of Bourbon", 140),
     LogRec("NextSong", "9", "Wyatt", "free", TsInt(1543537327, 796),
            NULL, NULL, 141),
     LogRec("Login", "9", "Wyatt", "free", TsNull, NULL, NULL, 141),
     LogRec("NextSong", "9", "Wyatt", "free", TsNull,
            "Tom Waits", "Earth Died Screaming", 142),
     LogRec("NextSong", "9", "Wyatt", "free", TsText,
            "Tom Waits", "Earth Died Screaming", 142) >>

\* Offsets of the local time zone from UTC, in seconds
\* (datetime.fromtimestamp converts to the system's local time).
LocalOffsets == {0, -3600}

\* ------------------------------------------------------- generic helpers
Range(s) == {s[i] : i \in 1..Len(s)}

\* Increasing index sequences over 1..n of length at most k: one
\* representative per set of records, since spark.read.json over a glob
\* yields an unordered collection.
StrictIndexSeqs(n, k) ==
  UNION {{s \in [1..m -> 1..n] : \A i \in 1..m : \A j \in 1..m : i < j => s[i] < s[j]}
         : m \in 0..k}

Pick(table, idx) == [i \in 1..Len(idx) |-> table[idx[i]]]

\* ------------------------------------------------- Spark column semantics
\* SQL equality used by filter and join conditions: a comparison with NULL
\* is not true.
SqlEq(a, b) == a # NULL /\ b # NULL /\ a = b

\* df[c1, c2, ...]: projection of every row onto the named columns.
Select(rows, cols) == [i \in 1..Len(rows) |-> [c \in cols |-> rows[i][c]]]

\* The schema spark.read.json infers has the column c: some record holds it.
HasColumn(rows, c) ==
  \E i \in 1..Len(rows) :
    IF c = "ts" THEN rows[i].ts.kind # "null" ELSE rows[i][c] # NULL

\* The columns of the catalog and of the events that a record may lack.
SongColumns ==
  {"song_id", "title", "artist_id", "artist_name", "artist_location",
   "artist_latitude", "artist_longitude"}
LogColumns ==
  {"page", "userId", "firstName", "lastName", "gender", "level", "ts",
   "artist", "song", "location", "userAgent"}

\* ------------------------------------------------------- calendar functions
\* Days since 1970-01-01 to civil date (proleptic Gregorian), for days >= 0.
CivilFromDays(days) ==
  LET z == days + 719468
      era == z \div 146097
      doe == z - era * 146097
      yoe == (doe - doe \div 1460 + doe \div 36524 - doe \div 146096) \div 365
      doy == doe - (365 * yoe + yoe \div 4 - yoe \div 100)
      mp == (5 * doy + 2) \div 153
      d == doy - (153 * mp + 2) \div 5 + 1
      m == IF mp < 10 THEN mp + 3 ELSE mp - 9
      y == yoe + era * 400 + (IF m <= 2 THEN 1 ELSE 0)
  IN [year |-> y, month |-> m, day |-> d]

DaysFromCivil(y, m, d) ==
  LET yy == IF m <= 2 THEN y - 1 ELSE y
      era == yy \div 400
      yoe == yy - era * 400
      doy == (153 * (IF m > 2 THEN m - 3 ELSE m + 9) + 2) \div 5 + d - 1
      doe == yoe * 365 + yoe \div 4 - yoe \div 100 + doy
  IN era * 146097 + doe - 719468

IsoWeeksInYear(y) ==
  LET p(x) == (x + x \div 4 - x \div 100 + x \div 400) % 7
  IN IF p(y) = 4 \/ p(y - 1) = 3 THEN 53 ELSE 52

\* datetime.fromtimestamp(int(x) / 1000) for a parseable x, in the zone
\* with offset tz; str() of it is modelled by the record of its fields.
FromTimestamp(sec, ms, tz) ==
  LET local == sec + tz
      days == local \div 86400
      sod == local % 86400
      c == CivilFromDays(days)
  IN [raised |-> FALSE, year |-> c.year, month |-> c.month, day |-> c.day,
      hour |-> sod \div 3600, minute |-> (sod % 3600) \div 60,
      second |-> sod % 60, microsecond |-> ms * 1000]

\* The value of a UDF call that raised (int(None), int("abc")).
Raised ==
  [raised |-> TRUE, year |-> 0, month |-> 0, day |-> 0, hour |-> 0,
   minute |-> 0, second |-> 0, microsecond |-> 0]

\* get_datetime = udf(lambda x: str(datetime.fromtimestamp(int(x) / 1000)))
get_datetime(x, tz) ==
  IF x.kind = "int" THEN FromTimestamp(x.sec, x.ms, tz) ELSE Raised

\* get_timestamp = udf(lambda x: str(int(int(x)/1000))): whole seconds,
\* -1 standing for a call that raised.
get_timestamp(x) == IF x.kind = "int" THEN x.sec ELSE -1

\* pyspark.sql.functions year, month, dayofmonth, hour on a datetime column.
year(dt) == dt.year
month(dt) == dt.month
dayofmonth(dt) == dt.day
hour(dt) == dt.hour

\* dayofweek: 1 = Sunday ... 7 = Saturday.
dayofweek(dt) == ((DaysFromCivil(dt.year, dt.month, dt.day) + 4) % 7) + 1

\* weekofyear: the ISO 8601 week number.
weekofyear(dt) ==
  LET days == DaysFromCivil(dt.year, dt.month, dt.day)
      isoday == ((days + 3) % 7) + 1
      ordinal == days - DaysFromCivil(dt.year, 1, 1) + 1
      w == (ordinal - isoday + 10) \div 7
  IN IF w < 1 THEN IsoWeeksInYear(dt.year - 1)
     ELSE IF w > IsoWeeksInYear(dt.year) THEN 1
     ELSE w

\* ------------------------------------------------------------ DataFrame API
\* df.withColumn(c, v) on one row.
withColumn(r, c, v) == [x \in DOMAIN r \cup {c} |-> IF x = c THEN v ELSE r[x]]

\* Mutation of filter: every page is kept.
filter_keep_all(rows) == rows

\* df.filter(df.page == 'NextSong')
filter(rows) == SelectSeq(rows, LAMBDA r : SqlEq(r.page, "NextSong"))

\* Mutation of dropDuplicates: distinct() over all columns.
dropDuplicates_all_columns(rows, cols) == {Range(rows)}

\* rows.dropDuplicates(cols): one row survives per distinct value of the key
\* columns (NULL keys group together).  Which row survives is the engine's
\* choice (first() after a shuffle), so the result is any of these tables.
dropDuplicates(rows, cols) ==
  LET all == Range(rows)
      key(r) == [c \in cols |-> r[c]]
      keys == {key(r) : r \in all}
      survivors == {f \in [keys -> all] : \A k \in keys : key(f[k]) = k}
  IN {{f[k] : k \in keys} : f \in survivors}

\* Mutation of JoinCondition: the title is not compared.
JoinCondition_artist_only(l, s) == SqlEq(l.artist, s.artist_name)

\* The join condition of line 112.
JoinCondition(l, s) == SqlEq(l.artist, s.artist_name) /\ SqlEq(l.song, s.title)

\* One row of df.join(song_df, ...): the columns of both sides.  li and si
\* identify the two input rows the joined row was built from.
JoinRow(left, right, i, j) == (left[i] @@ right[j]) @@ [li |-> i, si |-> j]

\* The pairs the inner join emits.
JoinPairs(left, right) ==
  {p \in (1..Len(left)) \X (1..Len(right)) : JoinCondition(left[p[1]], right[p[2]])}

\* The rows of a set of pairs in one fixed order.
RECURSIVE PairsInOrder(_)
PairsInOrder(ps) ==
  IF ps = {} THEN <<>>
  ELSE LET p == CHOOSE q \in ps :
                  \A o \in ps : q[1] < o[1] \/ (q[1] = o[1] /\ q[2] <= o[2])
       IN <<p>> \o PairsInOrder(ps \ {p})

\* The layouts of the join's output over the engine's partitions 0..n-1:
\* every assignment of joined rows to partitions.
JoinLayouts(left, right, n) ==
  LET ps == JoinPairs(left, right)
  IN {[p \in 0..(n - 1) |->
         LET mine == PairsInOrder({q \in ps : a[q] = p})
         IN [k \in 1..Len(mine) |-> JoinRow(left, right, mine[k][1], mine[k][2])]]
      : a \in [ps -> 0..(n - 1)]}

\* Mutation of monotonically_increasing_id: a counter that restarts in every
\* partition, without the partition index.
monotonically_increasing_id_restart(p, k) == [hi |-> 0, lo |-> k]

\* monotonically_increasing_id() for row number k (from 0) of partition p:
\* the partition index in the upper 31 bits, the row number in the lower 33.
\* The 64-bit value hi * 2^33 + lo is kept as the pair of its two parts.
monotonically_increasing_id(p, k) == [hi |-> p, lo |-> k]

\* Order of two ids as 64-bit integers.
IdLess(a, b) == a.hi < b.hi \/ (a.hi = b.hi /\ a.lo < b.lo)

\* The renaming select of lines 116-127, on one joined row.
SongplaysColumns(r) ==
  [songplay_id |-> r.songplay_id, start_time |-> r.datetime, user_id |-> r.userId,
   level |-> r.level, song_id |-> r.song_id, artist_id |-> r.artist_id,
   session_id |-> r.sessionId, location |-> r.location, user_agent |-> r.userAgent,
   year |-> r.year, month |-> r.month]

\* The time table's columns (lines 95-102), on one enriched row.
TimeColumns(r) ==
  [datetime |-> r.datetime, start_time |-> r.datetime, hour |-> hour(r.datetime),
   day |-> dayofmonth(r.datetime), week |-> weekofyear(r.datetime),
   month |-> month(r.datetime), year |-> year(r.datetime),
   weekday |-> dayofweek(r.datetime)]

RECURSIVE Flatten(_, _)
Flatten(parts, n) == IF n = 0 THEN <<>> ELSE Flatten(parts, n - 1) \o parts[n - 1]

\* ------------------------------------------------------------------- sink
Tables == {"songs", "artists", "users", "time", "songplays"}

NoRows(t) == IF t = "songplays" THEN <<>> ELSE {}

\* A table path with nothing under it.
Absent(t) == [exists |-> FALSE, partitionBy |-> <<>>, rows |-> NoRows(t)]

\* What df.write.partitionBy(cols).parquet(path, 'overwrite') leaves.
Written(rows, cols) == [exists |-> TRUE, partitionBy |-> cols, rows |-> rows]

\* What an earlier run over other inputs left under the five paths.
StaleSink ==
  [t \in Tables |->
     IF t = "songs" THEN
       Written({[song_id |-> "S0", title |-> "Old", artist_id |-> "A0",
                 year |-> 1970, duration |-> 1]}, <<"year", "artist_id">>)
     ELSE IF t = "artists" THEN
       Written({[artist_id |-> "A0", artist_name |-> "Old", artist_location |-> NULL,
                 artist_latitude |-> NULL, artist_longitude |-> NULL]}, <<>>)
     ELSE IF t = "users" THEN
       Written({[userId |-> "0", firstName |-> "Old", lastName |-> "Old",
                 gender |-> "F", level |-> "free"]}, <<>>)
     ELSE IF t = "time" THEN
       Written({TimeColumns([datetime |-> FromTimestamp(0, 0, 0)])}, <<"year", "month">>)
     ELSE
       Written(<<[songplay_id |-> monotonically_increasing_id(0, 0),
                  start_time |-> FromTimestamp(0, 0, 0), user_id |-> "0",
                  level |-> "free", song_id |-> "S0", artist_id |-> "A0",
                  session_id |-> 0, location |-> NULL, user_agent |-> NULL,
                  year |-> 1970, month |-> 1]>>, <<"year", "month">>)]

EmptySink == [t \in Tables |-> Absent(t)]

\* ---------------------------------------------------------------- control
\* Mutation of main_calls: the two calls swapped.
main_calls_swapped == <<"process_log_data", "process_song_data">>

\* The calls of main, lines 148-149.
main_calls == <<"process_song_data", "process_log_data">>

Entry(fn) == IF fn = "process_song_data" THEN "song_read" ELSE "log_read"

VARIABLES
  song_input_data,  \* the catalog records under the song path
  log_input_data,   \* the event records under the log path
  tz,               \* the system's local UTC offset
  output_data,      \* the sink: table name -> what is stored under its path
  run,              \* number of the current invocation of main
  call,             \* index in main_calls of the call in progress
  pc,               \* the next statement
  df, songs_table, artists_table, users_table, time_table,
  song_df, songplays_df, numbered, songplays_table,
  writes,           \* the writes completed in this run, in order
  failure,          \* "none", "udf", or the table whose write raised
  before            \* how the previous run ended and the sink it left

locals == <<df, songs_table, artists_table, users_table, time_table,
            song_df, songplays_df, numbered, songplays_table>>
inputs == <<song_input_data, log_input_data, tz>>
vars == <<inputs, output_data, run, call, pc, locals, writes, failure, before>>

\* The catalogs considered: up to MaxSongs different records of SongData.
SongInputs ==
  {rows \in {Pick(SongData, s) : s \in StrictIndexSeqs(Len(SongData), MaxSongs)} :
     \A c \in SongColumns : HasColumn(rows, c)}

\* The event inputs considered: up to MaxEvents different records of LogData.
LogInputs ==
  {rows \in {Pick(LogData, s) : s \in StrictIndexSeqs(Len(LogData), MaxEvents)} :
     \A c \in LogColumns : HasColumn(rows, c)}

NoLocals ==
  /\ df = <<>> /\ songs_table = {} /\ artists_table = {} /\ users_table = {}
  /\ time_table = {} /\ song_df = <<>> /\ songplays_df = <<>> /\ numbered = {}
  /\ songplays_table = <<>>

Init ==
  /\ song_input_data \in SongInputs
  /\ log_input_data \in LogInputs
  /\ tz \in LocalOffsets
  /\ output_data \in {EmptySink, StaleSink}
  /\ run = 1 /\ call = 0 /\ pc = "main"
  /\ NoLocals
  /\ writes = <<>> /\ failure = "none"
  /\ before = [status |-> "none", tables |-> output_data]

\* Mutation of parquet: the exception of a failed write is swallowed and the
\* run goes on.
parquet_swallow(t, content, next) ==
  \/ /\ output_data' = [output_data EXCEPT ![t] = content]
     /\ writes' = Append(writes, [table |-> t, content |-> content])
     /\ pc' = next
     /\ UNCHANGED failure
  \/ /\ output_data' \in {output_data, [output_data EXCEPT ![t] = Absent(t)]}
     /\ failure' = t
     /\ pc' = next
     /\ UNCHANGED writes

\* path.parquet(..., 'overwrite') of table t, then statement next.  A write
\* that raises ends the run; the path keeps what it held or is left empty
\* (overwrite clears the path before writing).
parquet(t, content, next) ==
  \/ /\ output_data' = [output_data EXCEPT ![t] = content]
     /\ writes' = Append(writes, [table |-> t, content |-> content])
     /\ pc' = next
     /\ UNCHANGED failure
  \/ /\ output_data' \in {output_data, [output_data EXCEPT ![t] = Absent(t)]}
     /\ failure' = t
     /\ pc' = "aborted"
     /\ UNCHANGED writes

\* main, lines 142-148: the first call.
Main ==
  /\ pc = "main"
  /\ call' = 1
  /\ pc' = Entry(main_calls[1])
  /\ UNCHANGED <<inputs, output_data, run, locals, writes, failure, before>>

\* process_song_data, line 39.
ReadSongData ==
  /\ pc = "song_read"
  /\ df' = song_input_data
  /\ pc' = "songs"
  /\ UNCHANGED <<inputs, output_data, run, call, songs_table, artists_table,
                 users_table, time_table, song_df, songplays_df, numbered,
                 songplays_table, writes, failure, before>>

\* process_song_data, lines 42-46.
WriteSongs ==
  /\ pc = "songs"
  /\ \E t \in dropDuplicates(
         Select(df, {"song_id", "title", "artist_id", "year", "duration"}),
         {"song_id"}) :
       /\ songs_table' = t
       /\ parquet("songs", Written(t, <<"year", "artist_id">>), "artists")
  /\ UNCHANGED <<inputs, run, call, df, artists_table, users_table, time_table,
                 song_df, songplays_df, numbered, songplays_table, before>>

\* process_song_data, lines 49-53.
WriteArtists ==
  /\ pc = "artists"
  /\ \E t \in dropDuplicates(
         Select(df, {"artist_id", "artist_name", "artist_location",
                     "artist_latitude", "artist_longitude"}),
         {"artist_id"}) :
       /\ artists_table' = t
       /\ parquet("artists", Written(t, <<>>), "return")
  /\ UNCHANGED <<inputs, run, call, df, songs_table, users_table, time_table,
                 song_df, songplays_df, numbered, songplays_table, before>>

\* process_log_data, lines 74-77.
ReadLogData ==
  /\ pc = "log_read"
  /\ df' = filter(log_input_data)
  /\ pc' = "users"
  /\ UNCHANGED <<inputs, output_data, run, call, songs_table, artists_table,
                 users_table, time_table, song_df, songplays_df, numbered,
                 songplays_table, writes, failure, before>>

\* process_log_data, lines 80-84.
WriteUsers ==
  /\ pc = "users"
  /\ \E t \in dropDuplicates(
         Select(df, {"userId", "firstName", "lastName", "gender", "level"}),
         {"userId", "level"}) :
       /\ users_table' = t
       /\ parquet("users", Written(t, <<>>), "enrich")
  /\ UNCHANGED <<inputs, run, call, df, songs_table, artists_table, time_table,
                 song_df, songplays_df, numbered, songplays_table, before>>

\* process_log_data, lines 87-92: the two UDF columns.  The columns are
\* evaluated by the actions that read them; a row whose UDF call raises is
\* carried with the value Raised.
AddTimeColumns ==
  /\ pc = "enrich"
  /\ df' = [i \in 1..Len(df) |->
              withColumn(withColumn(df[i], "timestamp", get_timestamp(df[i].ts)),
                         "datetime", get_datetime(df[i].ts, tz))]
  /\ pc' = "time"
  /\ UNCHANGED <<inputs, output_data, run, call, songs_table, artists_table,
                 users_table, time_table, song_df, songplays_df, numbered,
                 songplays_table, writes, failure, before>>

\* process_log_data, lines 95-106.  The write evaluates get_datetime on
\* every row of df; an exception in the UDF fails the job, and with it the
\* run, after the overwrite may have cleared the path.
WriteTime ==
  /\ pc = "time"
  /\ \/ /\ \E i \in 1..Len(df) : df[i].datetime.raised
        /\ failure' = "udf"
        /\ pc' = "aborted"
        /\ output_data' \in {output_data, [output_data EXCEPT !["time"] = Absent("time")]}
        /\ UNCHANGED <<writes, time_table>>
     \/ /\ \A i \in 1..Len(df) : ~df[i].datetime.raised
        /\ \E t \in dropDuplicates([i \in 1..Len(df) |-> TimeColumns(df[i])],
                                   {"datetime"}) :
             /\ time_table' = t
             /\ parquet("time", Written(t, <<"year", "month">>), "join")
  /\ UNCHANGED <<inputs, run, call, df, songs_table, artists_table, users_table,
                 song_df, songplays_df, numbered, songplays_table, before>>

\* process_log_data, lines 109-113: the join, laid out over the engine's
\* partitions, with the month column.
Join ==
  /\ pc = "join"
  /\ song_df' = song_input_data
  /\ \E layout \in JoinLayouts(df, song_input_data, MaxPartitions) :
       songplays_df' =
         [p \in 0..(MaxPartitions - 1) |->
            [k \in 1..Len(layout[p]) |->
               withColumn(layout[p][k], "month", month(layout[p][k].datetime))]]
  /\ numbered' = {}
  /\ pc' = "number"
  /\ UNCHANGED <<inputs, output_data, run, call, df, songs_table, artists_table,
                 users_table, time_table, songplays_table, writes, failure, before>>

\* process_log_data, line 114, as the task of partition p: tasks run in any
\* order and number their own rows.
NumberPartition(p) ==
  /\ pc = "number"
  /\ p \notin numbered
  /\ songplays_df' =
       [songplays_df EXCEPT ![p] =
          [k \in 1..Len(@) |->
             withColumn(@[k], "songplay_id", monotonically_increasing_id(p, k - 1))]]
  /\ numbered' = numbered \cup {p}
  /\ UNCHANGED <<inputs, output_data, run, call, pc, df, songs_table, artists_table,
                 users_table, time_table, song_df, songplays_table, writes,
                 failure, before>>

\* process_log_data, lines 116-131.
WriteSongplays ==
  /\ pc = "number"
  /\ numbered = 0..(MaxPartitions - 1)
  /\ LET all == Flatten(songplays_df, MaxPartitions)
         t == [k \in 1..Len(all) |-> SongplaysColumns(all[k])]
     IN /\ songplays_table' = t
        /\ parquet("songplays", Written(t, <<"year", "month">>), "return")
  /\ UNCHANGED <<inputs, run, call, df, songs_table, artists_table, users_table,
                 time_table, song_df, songplays_df, numbered, before>>

\* Return to main, lines 148-150: the next call, or the end of the run.
Return ==
  /\ pc = "return"
  /\ IF call < Len(main_calls)
       THEN /\ call' = call + 1
            /\ pc' = Entry(main_calls[call + 1])
       ELSE /\ pc' = "done"
            /\ UNCHANGED call
  /\ UNCHANGED <<inputs, output_data, run, locals, writes, failure, before>>

\* The program is started again on the same inputs and the same sink.
Rerun ==
  /\ pc \in {"done", "aborted"}
  /\ run < MaxRuns
  /\ run' = run + 1
  /\ before' = [status |-> pc, tables |-> output_data]
  /\ call' = 0 /\ pc' = "main"
  /\ df' = <<>> /\ songs_table' = {} /\ artists_table' = {} /\ users_table' = {}
  /\ time_table' = {} /\ song_df' = <<>> /\ songplays_df' = <<>> /\ numbered' = {}
  /\ songplays_table' = <<>>
  /\ writes' = <<>> /\ failure' = "none"
  /\ UNCHANGED <<inputs, output_data>>

Next ==
  \/ Main
  \/ ReadSongData
  \/ WriteSongs
  \/ WriteArtists
  \/ ReadLogData
  \/ WriteUsers
  \/ AddTimeColumns
  \/ WriteTime
  \/ Join
  \/ \E p \in 0..(MaxPartitions - 1) : NumberPartition(p)
  \/ WriteSongplays
  \/ Return

Spec == Init /\ [][Next]_vars

\* The pipeline run up to MaxRuns times over the same inputs and sink.
NextRerun ==
  \/ Next
  \/ Rerun

SpecRerun == Init /\ [][NextRerun]_vars

\* ================================================================ properties
WriteOrder == <<"songs", "artists", "users", "time", "songplays">>

WrittenThisRun(t) == \E i \in 1..Len(writes) : writes[i].table = t

\* No two rows of the set agree on all of the columns cols.
KeyUnique(rows, cols) ==
  \A r1 \in rows : \A r2 \in rows : (\A c \in cols : r1[c] = r2[c]) => r1 = r2

\* The event records of the input whose page is NextSong.
NextSongOnly == SelectSeq(log_input_data, LAMBDA r : r.page = "NextSong")

\* An event record whose ts int() cannot convert.
BadTs(r) == r.ts.kind # "int"

\* The joined rows of the last songplays job, partition after partition;
\* row k of the written table was selected from row k of these.
JoinedRows == Flatten(songplays_df, MaxPartitions)

\* The positions of the songplays table built from row i of df (and row j
\* of song_df).
RowsOfEvent(i) == {k \in 1..Len(JoinedRows) : JoinedRows[k].li = i}
RowsOfPair(i, j) == {k \in RowsOfEvent(i) : JoinedRows[k].si = j}

\* The event's (artist, song) equals the catalog record's (artist_name,
\* title), both present.
Matches(e, s) ==
  /\ e.artist # NULL /\ e.song # NULL
  /\ e.artist = s.artist_name /\ e.song = s.title

MatchesOf(i) == {j \in 1..Len(song_df) : Matches(df[i], song_df[j])}

\* Number of positions of s that hold x.
Count(s, x) == Cardinality({i \in 1..Len(s) : s[i] = x})

Unnumbered(r) == [c \in DOMAIN r \ {"songplay_id"} |-> r[c]]

SameBag(a, b) ==
  /\ Len(a) = Len(b)
  /\ \A x \in Range(a) \cup Range(b) : Count(a, x) = Count(b, x)

\* The run completed: all five tables written.
Completed == pc = "done"

\* ------------------------------------------------------------------- C1
\* C1: a table this run has written holds no two rows with equal song_id
\* (songs), artist_id (artists), (userId, level) (users), start_time (time).
C1_DedupKeysUnique ==
  /\ WrittenThisRun("songs") => KeyUnique(output_data["songs"].rows, {"song_id"})
  /\ WrittenThisRun("artists") => KeyUnique(output_data["artists"].rows, {"artist_id"})
  /\ WrittenThisRun("users") => KeyUnique(output_data["users"].rows, {"userId", "level"})
  /\ WrittenThisRun("time") => KeyUnique(output_data["time"].rows, {"start_time"})

\* A completed run whose catalog has two different records with one song_id
\* and one artist_id, and whose events have two different NextSong records
\* with one (userId, level) and one ts.
C1_Witness ==
  /\ Completed
  /\ \E i, j \in 1..Len(song_input_data) :
       /\ song_input_data[i] # song_input_data[j]
       /\ song_input_data[i].song_id = song_input_data[j].song_id
       /\ song_input_data[i].artist_id = song_input_data[j].artist_id
  /\ \E i, j \in 1..Len(NextSongOnly) :
       /\ NextSongOnly[i].firstName # NextSongOnly[j].firstName
       /\ NextSongOnly[i].userId = NextSongOnly[j].userId
       /\ NextSongOnly[i].level = NextSongOnly[j].level
       /\ NextSongOnly[i].ts = NextSongOnly[j].ts

\* ------------------------------------------------------------------- C2
\* The NextSong records with the datetime column.
NextSongEnriched ==
  [i \in 1..Len(NextSongOnly) |->
     withColumn(NextSongOnly[i], "datetime", get_datetime(NextSongOnly[i].ts, tz))]

\* The songplays rows, without their ids, of the NextSong records alone.
NextSongPlays ==
  LET ps == PairsInOrder(JoinPairs(NextSongEnriched, song_input_data))
  IN [k \in 1..Len(ps) |->
        LET r == JoinRow(NextSongEnriched, song_input_data, ps[k][1], ps[k][2])
        IN Unnumbered(SongplaysColumns(
             withColumn(withColumn(r, "month", month(r.datetime)),
                        "songplay_id", monotonically_increasing_id(0, 0))))]

\* C2: the users, time and songplays tables a run writes are tables the
\* input without its non-NextSong records yields, and a non-NextSong record
\* never makes the run fail: a failing UDF call is on a NextSong record.
C2_OnlyNextSongContributes ==
  /\ WrittenThisRun("users") =>
       output_data["users"].rows \in
         dropDuplicates(Select(NextSongOnly,
                               {"userId", "firstName", "lastName", "gender", "level"}),
                        {"userId", "level"})
  /\ WrittenThisRun("time") =>
       output_data["time"].rows \in
         dropDuplicates([i \in 1..Len(NextSongEnriched) |-> TimeColumns(NextSongEnriched[i])],
                        {"datetime"})
  /\ WrittenThisRun("songplays") =>
       SameBag([k \in 1..Len(output_data["songplays"].rows) |->
                  Unnumbered(output_data["songplays"].rows[k])],
               NextSongPlays)
  /\ failure = "udf" => \E i \in 1..Len(NextSongOnly) : BadTs(NextSongOnly[i])

\* A completed run over events holding a Login record without ts, which
\* wrote a songplays row.
C2_Witness ==
  /\ Completed
  /\ \E i \in 1..Len(log_input_data) :
       log_input_data[i].page = "Login" /\ BadTs(log_input_data[i])
  /\ Len(output_data["songplays"].rows) >= 1

\* ------------------------------------------------------------------- C3
\* C3 as stated: after a completed run every NextSong event that matches a
\* catalog record has exactly one songplays row, and the row carries that
\* record's song_id and artist_id.
C3_ExactlyOneRowPerMatchedEvent ==
  Completed =>
    \A i \in 1..Len(df) : \A j \in MatchesOf(i) :
      /\ Cardinality(RowsOfEvent(i)) = 1
      /\ \A k \in RowsOfEvent(i) :
           /\ songplays_table[k].song_id = song_df[j].song_id
           /\ songplays_table[k].artist_id = song_df[j].artist_id

\* C3 amended: after a completed run every NextSong event has exactly one
\* songplays row per catalog record it matches, carrying that record's
\* song_id and artist_id, and no other row; exactly one row when exactly
\* one catalog record matches.
C3_OneRowPerMatchingCatalogRecord ==
  Completed =>
    /\ output_data["songplays"].rows = songplays_table
    /\ Len(songplays_table) = Len(JoinedRows)
    /\ \A i \in 1..Len(df) :
         /\ Cardinality(RowsOfEvent(i)) = Cardinality(MatchesOf(i))
         /\ \A j \in MatchesOf(i) :
              /\ Cardinality(RowsOfPair(i, j)) = 1
              /\ \A k \in RowsOfPair(i, j) :
                   /\ songplays_table[k].song_id = song_df[j].song_id
                   /\ songplays_table[k].artist_id = song_df[j].artist_id

\* A completed run with an event that matches two catalog records and has
\* two songplays rows.
C3_Witness ==
  /\ Completed
  /\ \E i \in 1..Len(df) :
       Cardinality(MatchesOf(i)) = 2 /\ Cardinality(RowsOfEvent(i)) = 2

\* ------------------------------------------------------------------- C4
\* C4: after a completed run an event that matches no catalog record (a
\* null artist or song matches none) has no songplays row, every row comes
\* from a matching catalog record, and every row's song_id and artist_id
\* are non-null.
C4_InnerJoinNonNullIds ==
  Completed =>
    /\ \A i \in 1..Len(df) : MatchesOf(i) = {} => RowsOfEvent(i) = {}
    /\ \A k \in 1..Len(songplays_table) :
         /\ JoinedRows[k].si \in MatchesOf(JoinedRows[k].li)
         /\ songplays_table[k].song_id = song_df[JoinedRows[k].si].song_id
         /\ songplays_table[k].artist_id = song_df[JoinedRows[k].si].artist_id
         /\ songplays_table[k].song_id # NULL
         /\ songplays_table[k].artist_id # NULL

\* ------------------------------------------------------------------- C5
\* C5: after a completed run every songplays row's year and month are the
\* year and month of its start_time, as in the time table, and the table is
\* partitioned by (year, month).
C5_YearMonthOfEvent ==
  Completed =>
    /\ output_data["songplays"].partitionBy = <<"year", "month">>
    /\ \A k \in 1..Len(output_data["songplays"].rows) :
         LET r == output_data["songplays"].rows[k]
         IN \E t \in output_data["time"].rows :
              /\ t.start_time = r.start_time
              /\ t.year = r.year
              /\ t.month = r.month

\* ------------------------------------------------------------------- C6
\* C6: whatever the layout of the joined rows over the partitions and the
\* order in which the partitions are numbered, no two rows hold the same
\* songplay_id, in the partitions numbered so far and in the written table,
\* and inside a partition the ids increase with the row's position.
C6_SongplayIdUnique ==
  /\ \A p \in numbered : \A q \in numbered :
       \A k \in 1..Len(songplays_df[p]) : \A m \in 1..Len(songplays_df[q]) :
         /\ (p # q \/ k # m) =>
              songplays_df[p][k].songplay_id # songplays_df[q][m].songplay_id
         /\ (p = q /\ k < m) =>
              IdLess(songplays_df[p][k].songplay_id, songplays_df[q][m].songplay_id)
  /\ WrittenThisRun("songplays") =>
       \A k, m \in 1..Len(output_data["songplays"].rows) :
         k # m => output_data["songplays"].rows[k].songplay_id
                    # output_data["songplays"].rows[m].songplay_id

\* A completed run in which one partition held at least two joined rows and
\* another at least one.
C6_Witness ==
  /\ Completed
  /\ \E p, q \in 0..(MaxPartitions - 1) :
       p # q /\ Len(songplays_df[p]) >= 2 /\ Len(songplays_df[q]) >= 1

\* ------------------------------------------------------------------- C7
\* C7: a second completed run over the same inputs, after a completed run,
\* leaves every table as the first run left it, songplay_id values apart.
C7_SecondRunSameTables ==
  (run = 2 /\ Completed /\ before.status = "done") =>
    /\ \A t \in {"songs", "artists", "users", "time"} :
         output_data[t] = before.tables[t]
    /\ output_data["songplays"].partitionBy = before.tables["songplays"].partitionBy
    /\ SameBag([k \in 1..Len(output_data["songplays"].rows) |->
                  Unnumbered(output_data["songplays"].rows[k])],
               [k \in 1..Len(before.tables["songplays"].rows) |->
                  Unnumbered(before.tables["songplays"].rows[k])])

\* ------------------------------------------------------------------- C8
\* C8: a NextSong record whose ts is missing or unparseable does not fail
\* the run: no run ends in a failed UDF call.
C8_BadTsDoesNotFailRun ==
  (\E i \in 1..Len(NextSongOnly) : BadTs(NextSongOnly[i])) =>
    ~(pc = "aborted" /\ failure = "udf")

\* ------------------------------------------------------------------- C9
\* C9: the writes of a run, completed or failed, come in the order songs,
\* artists, users, time, songplays, and the songplays job does not start
\* before the other four tables are written.
C9_WriteOrder ==
  /\ Len(writes) <= Len(WriteOrder)
  /\ \A i \in 1..Len(writes) : writes[i].table = WriteOrder[i]
  /\ failure \in Tables => failure = WriteOrder[Len(writes) + 1]
  /\ (pc \in {"join", "number"} \/ failure = "songplays" \/ WrittenThisRun("songplays")) =>
       \A t \in {"songs", "artists", "users", "time"} : WrittenThisRun(t)

\* A completed run: five writes.
C9_Witness == Completed /\ Len(writes) = 5

\* ------------------------------------------------------------------ C10
\* C10: when a table's write fails the run is aborted, every table written
\* before it in the run holds what the run wrote, and every table after it
\* in the order holds what it held before the run.
C10_AbortKeepsEarlierWrites ==
  failure \in Tables =>
    /\ pc = "aborted"
    /\ \A i \in 1..Len(writes) : output_data[writes[i].table] = writes[i].content
    /\ \A t \in Tables :
         (t # failure /\ ~WrittenThisRun(t)) => output_data[t] = before.tables[t]
    /\ \A i \in 1..Len(WriteOrder) :
         WrittenThisRun(WriteOrder[i]) =>
           \E j \in (i + 1)..Len(WriteOrder) : WriteOrder[j] = failure

\* The time write failed over a sink an earlier run had filled: songs,
\* artists and users are this run's, songplays is the earlier run's.
C10_Witness ==
  /\ failure = "time"
  /\ before.tables = StaleSink
  /\ output_data["songs"] # StaleSink["songs"]
  /\ output_data["users"] # StaleSink["users"]
  /\ output_data["songplays"] = StaleSink["songplays"]
====
